---------------------------- MODULE Spec2Model ----------------------------
(***************************************************************************)
(* Model of src/src/render/bound-curves.ts: the BoundCurves constructor,   *)
(* getCurvePoints and the three path helpers.                              *)
(*                                                                         *)
(* Numbers.  The source computes on JavaScript numbers.  The model uses    *)
(* exact rationals [n, d] (d > 0, lowest terms) and keeps the two special  *)
(* values a division by zero produces: Infinity is [n |-> 1, d |-> 0] and  *)
(* NaN is [n |-> 0, d |-> 0].  Rounding of binary floating point is not    *)
(* modelled.  kappa = 4 * ((sqrt 2 - 1) / 3) is irrational, so a control   *)
(* point coordinate is kept symbolically as c + k * kappa.                 *)
(***************************************************************************)
EXTENDS Integers, Sequences, FiniteSets, TLC

VARIABLES element, built, curves, call, path

vars == <<element, built, curves, call, path>>

---------------------------------------------------------------------------
(* JavaScript number arithmetic on rationals                               *)

Abs(i) == IF i < 0 THEN -i ELSE i

RECURSIVE GCD(_, _)
GCD(a, b) == IF b = 0 THEN a ELSE GCD(b, a % b)

\* the rational n/d in lowest terms with a positive denominator (d # 0)
Rat(n, d) ==
    LET g == GCD(Abs(n), Abs(d))
        s == IF d < 0 THEN -1 ELSE 1
    IN  [n |-> (s * n) \div g, d |-> (s * d) \div g]

R(i) == [n |-> i, d |-> 1]

Infinity == [n |-> 1, d |-> 0]

NaN == [n |-> 0, d |-> 0]

IsNaN(a) == a.d = 0 /\ a.n = 0

IsFinite(a) == a.d > 0

\* a + b, a - b, a * b on finite numbers (every operand the constructor
\* adds, subtracts or multiplies is finite: only the overlap factors and
\* maxFactor can be Infinity or NaN)
Add(a, b) == Rat(a.n * b.d + b.n * a.d, a.d * b.d)

Sub(a, b) == Rat(a.n * b.d - b.n * a.d, a.d * b.d)

Mul(a, b) == Rat(a.n * b.n, a.d * b.d)

\* a / b as JavaScript divides: x/0 is Infinity for x > 0 and NaN for x = 0,
\* x/Infinity is 0, anything with NaN is NaN
Div(a, b) ==
    IF IsNaN(a) \/ IsNaN(b) THEN NaN
    ELSE IF ~IsFinite(b) THEN (IF IsFinite(a) THEN R(0) ELSE NaN)
    ELSE IF ~IsFinite(a) THEN (IF b.n < 0 THEN [n |-> -a.n, d |-> 0] ELSE a)
    ELSE IF b.n = 0 THEN
        (IF a.n = 0 THEN NaN ELSE [n |-> (IF a.n > 0 THEN 1 ELSE -1), d |-> 0])
    ELSE Rat(a.n * b.d, a.d * b.n)

\* a > b as JavaScript compares: false when either side is NaN
Gt(a, b) ==
    IF IsNaN(a) \/ IsNaN(b) THEN FALSE
    ELSE IF ~IsFinite(a) THEN a.n > 0 /\ (IsFinite(b) \/ b.n < 0)
    ELSE IF ~IsFinite(b) THEN b.n < 0
    ELSE a.n * b.d > b.n * a.d

Le(a, b) == a = b \/ Gt(b, a)

\* Math.max(a, b) and Math.min(a, b): NaN when either argument is NaN
Max2(a, b) == IF IsNaN(a) \/ IsNaN(b) THEN NaN ELSE IF Gt(b, a) THEN b ELSE a

Min2(a, b) == IF IsNaN(a) \/ IsNaN(b) THEN NaN ELSE IF Gt(a, b) THEN b ELSE a

\* Math.max(...factors) over the four factors
MathMax(factors) ==
    Max2(Max2(factors[1], factors[2]), Max2(factors[3], factors[4]))

---------------------------------------------------------------------------
(* Vector, BezierCurve and the CORNER enum                                 *)

Vector(x, y) == [type |-> "Vector", x |-> x, y |-> y]

BezierCurve(start, startControl, endControl, end) ==
    [type |-> "BezierCurve", start |-> start, startControl |-> startControl,
     endControl |-> endControl, end |-> end]

TOP_LEFT == 0

TOP_RIGHT == 1

BOTTOM_RIGHT == 2

BOTTOM_LEFT == 3

\* x + r * kappa and x - r * kappa, kept symbolically
PlusKappa(x, r) == [c |-> x, k |-> r]

MinusKappa(x, r) == [c |-> x, k |-> Sub(R(0), r)]

\* the four control points for origin (x, y), x-middle xm = x + r1 and
\* y-middle ym = y + r2; ox = r1 * kappa and oy = r2 * kappa enter only as
\* x +- ox and y +- oy
CornerCurve(x, y, xm, ym, r1, r2, position) ==
    CASE position = TOP_LEFT ->
           BezierCurve(Vector(x, ym),
                       Vector(x, MinusKappa(ym, r2)),
                       Vector(MinusKappa(xm, r1), y),
                       Vector(xm, y))
      [] position = TOP_RIGHT ->
           BezierCurve(Vector(x, y),
                       Vector(PlusKappa(x, r1), y),
                       Vector(xm, MinusKappa(ym, r2)),
                       Vector(xm, ym))
      [] position = BOTTOM_RIGHT ->
           BezierCurve(Vector(xm, y),
                       Vector(xm, PlusKappa(y, r2)),
                       Vector(PlusKappa(x, r1), ym),
                       Vector(x, ym))
      [] OTHER ->
           BezierCurve(Vector(xm, ym),
                       Vector(MinusKappa(xm, r1), ym),
                       Vector(x, PlusKappa(y, r2)),
                       Vector(x, y))

getCurvePoints(x, y, r1, r2, position) ==
    CornerCurve(x, y, Add(x, r1), Add(y, r2), r1, r2, position)

---------------------------------------------------------------------------
(* The constructor's locals                                                *)

\* getAbsoluteValueForTuple and getAbsoluteValue resolve a style value
\* against the box; the element's styles are held already resolved
getAbsoluteValueForTuple(tuple, width, height) == <<R(tuple[1]), R(tuple[2])>>

getAbsoluteValue(token, parent) == R(token)

\* the eight radius components as the four getAbsoluteValueForTuple calls
\* resolve them
ResolvedRadii(styles, bounds) ==
    [tl |-> getAbsoluteValueForTuple(styles.borderTopLeftRadius, bounds.width, bounds.height),
     tr |-> getAbsoluteValueForTuple(styles.borderTopRightRadius, bounds.width, bounds.height),
     br |-> getAbsoluteValueForTuple(styles.borderBottomRightRadius, bounds.width, bounds.height),
     bl |-> getAbsoluteValueForTuple(styles.borderBottomLeftRadius, bounds.width, bounds.height)]

\* the four overlap factors of radii r, in the order they are pushed
Factors(r, bounds) ==
    << Div(Add(r.tl[1], r.tr[1]), R(bounds.width)),
       Div(Add(r.bl[1], r.br[1]), R(bounds.width)),
       Div(Add(r.tl[2], r.bl[2]), R(bounds.height)),
       Div(Add(r.tr[2], r.br[2]), R(bounds.height)) >>

\* Normalize with only the horizontal components scaled
NormalizeHorizontalOnly(r, maxFactor) ==
    IF Gt(maxFactor, R(1))
    THEN [tlh |-> Div(r.tl[1], maxFactor), tlv |-> r.tl[2],
          trh |-> Div(r.tr[1], maxFactor), trv |-> r.tr[2],
          brh |-> Div(r.br[1], maxFactor), brv |-> r.br[2],
          blh |-> Div(r.bl[1], maxFactor), blv |-> r.bl[2]]
    ELSE [tlh |-> r.tl[1], tlv |-> r.tl[2],
          trh |-> r.tr[1], trv |-> r.tr[2],
          brh |-> r.br[1], brv |-> r.br[2],
          blh |-> r.bl[1], blv |-> r.bl[2]]

\* the eight radius components after the 'if (maxFactor > 1)' block
Normalize(r, maxFactor) ==
    IF Gt(maxFactor, R(1))
    THEN [tlh |-> Div(r.tl[1], maxFactor), tlv |-> Div(r.tl[2], maxFactor),
          trh |-> Div(r.tr[1], maxFactor), trv |-> Div(r.tr[2], maxFactor),
          brh |-> Div(r.br[1], maxFactor), brv |-> Div(r.br[2], maxFactor),
          blh |-> Div(r.bl[1], maxFactor), blv |-> Div(r.bl[2], maxFactor)]
    ELSE [tlh |-> r.tl[1], tlv |-> r.tl[2],
          trh |-> r.tr[1], trv |-> r.tr[2],
          brh |-> r.br[1], brv |-> r.br[2],
          blh |-> r.bl[1], blv |-> r.bl[2]]

\* the radii the constructor works with from line 96 on
NormalizedRadii(e) ==
    Normalize(ResolvedRadii(e.styles, e.bounds),
              MathMax(Factors(ResolvedRadii(e.styles, e.bounds), e.bounds)))

\* every local the 24 field computations read, r being the normalized radii
Locals(e, r) ==
    [left |-> R(e.bounds.left), top |-> R(e.bounds.top),
     width |-> R(e.bounds.width), height |-> R(e.bounds.height),
     tlh |-> r.tlh, tlv |-> r.tlv, trh |-> r.trh, trv |-> r.trv,
     brh |-> r.brh, brv |-> r.brv, blh |-> r.blh, blv |-> r.blv,
     topWidth     |-> Sub(R(e.bounds.width), r.trh),
     rightHeight  |-> Sub(R(e.bounds.height), r.brv),
     bottomWidth  |-> Sub(R(e.bounds.width), r.brh),
     leftHeight   |-> Sub(R(e.bounds.height), r.blv),
     borderTopWidth    |-> R(e.styles.borderTopWidth),
     borderRightWidth  |-> R(e.styles.borderRightWidth),
     borderBottomWidth |-> R(e.styles.borderBottomWidth),
     borderLeftWidth   |-> R(e.styles.borderLeftWidth),
     paddingTop    |-> getAbsoluteValue(e.styles.paddingTop, e.bounds.width),
     paddingRight  |-> getAbsoluteValue(e.styles.paddingRight, e.bounds.width),
     paddingBottom |-> getAbsoluteValue(e.styles.paddingBottom, e.bounds.width),
     paddingLeft   |-> getAbsoluteValue(e.styles.paddingLeft, e.bounds.width)]

Zero == R(0)

\* a > 0
Pos(a) == Gt(a, Zero)

\* x / 3, (x * 2) / 3 and x / 2
Third(x) == Div(x, R(3))

TwoThirds(x) == Div(Mul(x, R(2)), R(3))

Half(x) == Div(x, R(2))


---------------------------------------------------------------------------
(* The 24 fields, each from the constructor's locals c                     *)

topLeftBorderDoubleOuterBox(c) ==
    IF Pos(c.tlh) \/ Pos(c.tlv)
    THEN getCurvePoints(Add(c.left, Third(c.borderLeftWidth)),
                        Add(c.top, Third(c.borderTopWidth)),
                        Sub(c.tlh, Third(c.borderLeftWidth)),
                        Sub(c.tlv, Third(c.borderTopWidth)),
                        TOP_LEFT)
    ELSE Vector(Add(c.left, Third(c.borderLeftWidth)),
                Add(c.top, Third(c.borderTopWidth)))

topRightBorderDoubleOuterBox(c) ==
    IF Pos(c.tlh) \/ Pos(c.tlv)
    THEN getCurvePoints(Add(c.left, c.topWidth),
                        Add(c.top, Third(c.borderTopWidth)),
                        Sub(c.trh, Third(c.borderRightWidth)),
                        Sub(c.trv, Third(c.borderTopWidth)),
                        TOP_RIGHT)
    ELSE Vector(Sub(Add(c.left, c.width), Third(c.borderRightWidth)),
                Add(c.top, Third(c.borderTopWidth)))

bottomRightBorderDoubleOuterBox(c) ==
    IF Pos(c.brh) \/ Pos(c.brv)
    THEN getCurvePoints(Add(c.left, c.bottomWidth),
                        Add(c.top, c.rightHeight),
                        Sub(c.brh, Third(c.borderRightWidth)),
                        Sub(c.brv, Third(c.borderBottomWidth)),
                        BOTTOM_RIGHT)
    ELSE Vector(Sub(Add(c.left, c.width), Third(c.borderRightWidth)),
                Sub(Add(c.top, c.height), Third(c.borderBottomWidth)))

bottomLeftBorderDoubleOuterBox(c) ==
    IF Pos(c.blh) \/ Pos(c.blv)
    THEN getCurvePoints(Add(c.left, Third(c.borderLeftWidth)),
                        Add(c.top, c.leftHeight),
                        Sub(c.blh, Third(c.borderLeftWidth)),
                        Sub(c.blv, Third(c.borderBottomWidth)),
                        BOTTOM_LEFT)
    ELSE Vector(Add(c.left, Third(c.borderLeftWidth)),
                Sub(Add(c.top, c.height), Third(c.borderBottomWidth)))

topLeftBorderDoubleInnerBox(c) ==
    IF Pos(c.tlh) \/ Pos(c.tlv)
    THEN getCurvePoints(Add(c.left, TwoThirds(c.borderLeftWidth)),
                        Add(c.top, TwoThirds(c.borderTopWidth)),
                        Sub(c.tlh, TwoThirds(c.borderLeftWidth)),
                        Sub(c.tlv, TwoThirds(c.borderTopWidth)),
                        TOP_LEFT)
    ELSE Vector(Add(c.left, TwoThirds(c.borderLeftWidth)),
                Add(c.top, TwoThirds(c.borderTopWidth)))

topRightBorderDoubleInnerBox(c) ==
    IF Pos(c.tlh) \/ Pos(c.tlv)
    THEN getCurvePoints(Add(c.left, c.topWidth),
                        Add(c.top, TwoThirds(c.borderTopWidth)),
                        Sub(c.trh, TwoThirds(c.borderRightWidth)),
                        Sub(c.trv, TwoThirds(c.borderTopWidth)),
                        TOP_RIGHT)
    ELSE Vector(Sub(Add(c.left, c.width), TwoThirds(c.borderRightWidth)),
                Add(c.top, TwoThirds(c.borderTopWidth)))

bottomRightBorderDoubleInnerBox(c) ==
    IF Pos(c.brh) \/ Pos(c.brv)
    THEN getCurvePoints(Add(c.left, c.bottomWidth),
                        Add(c.top, c.rightHeight),
                        Sub(c.brh, TwoThirds(c.borderRightWidth)),
                        Sub(c.brv, TwoThirds(c.borderBottomWidth)),
                        BOTTOM_RIGHT)
    ELSE Vector(Sub(Add(c.left, c.width), TwoThirds(c.borderRightWidth)),
                Sub(Add(c.top, c.height), TwoThirds(c.borderBottomWidth)))

bottomLeftBorderDoubleInnerBox(c) ==
    IF Pos(c.blh) \/ Pos(c.blv)
    THEN getCurvePoints(Add(c.left, TwoThirds(c.borderLeftWidth)),
                        Add(c.top, c.leftHeight),
                        Sub(c.blh, TwoThirds(c.borderLeftWidth)),
                        Sub(c.blv, TwoThirds(c.borderBottomWidth)),
                        BOTTOM_LEFT)
    ELSE Vector(Add(c.left, TwoThirds(c.borderLeftWidth)),
                Sub(Add(c.top, c.height), TwoThirds(c.borderBottomWidth)))

topLeftBorderStroke(c) ==
    IF Pos(c.tlh) \/ Pos(c.tlv)
    THEN getCurvePoints(Add(c.left, Half(c.borderLeftWidth)),
                        Add(c.top, Half(c.borderTopWidth)),
                        Sub(c.tlh, Half(c.borderLeftWidth)),
                        Sub(c.tlv, Half(c.borderTopWidth)),
                        TOP_LEFT)
    ELSE Vector(Add(c.left, Half(c.borderLeftWidth)),
                Add(c.top, Half(c.borderTopWidth)))

topRightBorderStroke(c) ==
    IF Pos(c.tlh) \/ Pos(c.tlv)
    THEN getCurvePoints(Add(c.left, c.topWidth),
                        Add(c.top, Half(c.borderTopWidth)),
                        Sub(c.trh, Half(c.borderRightWidth)),
                        Sub(c.trv, Half(c.borderTopWidth)),
                        TOP_RIGHT)
    ELSE Vector(Sub(Add(c.left, c.width), Half(c.borderRightWidth)),
                Add(c.top, Half(c.borderTopWidth)))

bottomRightBorderStroke(c) ==
    IF Pos(c.brh) \/ Pos(c.brv)
    THEN getCurvePoints(Add(c.left, c.bottomWidth),
                        Add(c.top, c.rightHeight),
                        Sub(c.brh, Half(c.borderRightWidth)),
                        Sub(c.brv, Half(c.borderBottomWidth)),
                        BOTTOM_RIGHT)
    ELSE Vector(Sub(Add(c.left, c.width), Half(c.borderRightWidth)),
                Sub(Add(c.top, c.height), Half(c.borderBottomWidth)))

bottomLeftBorderStroke(c) ==
    IF Pos(c.blh) \/ Pos(c.blv)
    THEN getCurvePoints(Add(c.left, Half(c.borderLeftWidth)),
                        Add(c.top, c.leftHeight),
                        Sub(c.blh, Half(c.borderLeftWidth)),
                        Sub(c.blv, Half(c.borderBottomWidth)),
                        BOTTOM_LEFT)
    ELSE Vector(Add(c.left, Half(c.borderLeftWidth)),
                Sub(Add(c.top, c.height), Half(c.borderBottomWidth)))

topLeftBorderBox(c) ==
    IF Pos(c.tlh) \/ Pos(c.tlv)
    THEN getCurvePoints(c.left, c.top, c.tlh, c.tlv, TOP_LEFT)
    ELSE Vector(c.left, c.top)

\* topRightBorderBox with the curve's origin at the box edge
topRightBorderBoxAtEdge(c) ==
    IF Pos(c.trh) \/ Pos(c.trv)
    THEN getCurvePoints(Add(c.left, c.width), c.top, c.trh, c.trv, TOP_RIGHT)
    ELSE Vector(Add(c.left, c.width), c.top)

topRightBorderBox(c) ==
    IF Pos(c.trh) \/ Pos(c.trv)
    THEN getCurvePoints(Add(c.left, c.topWidth), c.top, c.trh, c.trv, TOP_RIGHT)
    ELSE Vector(Add(c.left, c.width), c.top)

bottomRightBorderBox(c) ==
    IF Pos(c.brh) \/ Pos(c.brv)
    THEN getCurvePoints(Add(c.left, c.bottomWidth), Add(c.top, c.rightHeight),
                        c.brh, c.brv, BOTTOM_RIGHT)
    ELSE Vector(Add(c.left, c.width), Add(c.top, c.height))

bottomLeftBorderBox(c) ==
    IF Pos(c.blh) \/ Pos(c.blv)
    THEN getCurvePoints(c.left, Add(c.top, c.leftHeight), c.blh, c.blv, BOTTOM_LEFT)
    ELSE Vector(c.left, Add(c.top, c.height))

\* topLeftPaddingBox testing the inset radii instead of tlh and tlv
topLeftPaddingBoxByEffectiveRadii(c) ==
    IF Pos(Sub(c.tlh, c.borderLeftWidth)) \/ Pos(Sub(c.tlv, c.borderTopWidth))
    THEN getCurvePoints(Add(c.left, c.borderLeftWidth),
                        Add(c.top, c.borderTopWidth),
                        Max2(Zero, Sub(c.tlh, c.borderLeftWidth)),
                        Max2(Zero, Sub(c.tlv, c.borderTopWidth)),
                        TOP_LEFT)
    ELSE Vector(Add(c.left, c.borderLeftWidth), Add(c.top, c.borderTopWidth))

topLeftPaddingBox(c) ==
    IF Pos(c.tlh) \/ Pos(c.tlv)
    THEN getCurvePoints(Add(c.left, c.borderLeftWidth),
                        Add(c.top, c.borderTopWidth),
                        Max2(Zero, Sub(c.tlh, c.borderLeftWidth)),
                        Max2(Zero, Sub(c.tlv, c.borderTopWidth)),
                        TOP_LEFT)
    ELSE Vector(Add(c.left, c.borderLeftWidth), Add(c.top, c.borderTopWidth))

topRightPaddingBox(c) ==
    IF Pos(c.trh) \/ Pos(c.trv)
    THEN getCurvePoints(Add(c.left, Min2(c.topWidth, Sub(c.width, c.borderRightWidth))),
                        Add(c.top, c.borderTopWidth),
                        IF Gt(c.topWidth, Add(c.width, c.borderRightWidth))
                        THEN Zero
                        ELSE Max2(Zero, Sub(c.trh, c.borderRightWidth)),
                        Max2(Zero, Sub(c.trv, c.borderTopWidth)),
                        TOP_RIGHT)
    ELSE Vector(Sub(Add(c.left, c.width), c.borderRightWidth),
                Add(c.top, c.borderTopWidth))

\* bottomRightPaddingBox with the vertex inset by the left border width
bottomRightPaddingBoxLeftInset(c) ==
    IF Pos(c.brh) \/ Pos(c.brv)
    THEN getCurvePoints(Add(c.left, Min2(c.bottomWidth, Sub(c.width, c.borderLeftWidth))),
                        Add(c.top, Min2(c.rightHeight, Sub(c.height, c.borderBottomWidth))),
                        Max2(Zero, Sub(c.brh, c.borderRightWidth)),
                        Max2(Zero, Sub(c.brv, c.borderBottomWidth)),
                        BOTTOM_RIGHT)
    ELSE Vector(Sub(Add(c.left, c.width), c.borderLeftWidth),
                Sub(Add(c.top, c.height), c.borderBottomWidth))

bottomRightPaddingBox(c) ==
    IF Pos(c.brh) \/ Pos(c.brv)
    THEN getCurvePoints(Add(c.left, Min2(c.bottomWidth, Sub(c.width, c.borderLeftWidth))),
                        Add(c.top, Min2(c.rightHeight, Sub(c.height, c.borderBottomWidth))),
                        Max2(Zero, Sub(c.brh, c.borderRightWidth)),
                        Max2(Zero, Sub(c.brv, c.borderBottomWidth)),
                        BOTTOM_RIGHT)
    ELSE Vector(Sub(Add(c.left, c.width), c.borderRightWidth),
                Sub(Add(c.top, c.height), c.borderBottomWidth))

\* bottomLeftPaddingBox without Math.max(0, ...) on the vertical radius
bottomLeftPaddingBoxUnfloored(c) ==
    IF Pos(c.blh) \/ Pos(c.blv)
    THEN getCurvePoints(Add(c.left, c.borderLeftWidth),
                        Add(c.top, Min2(c.leftHeight, Sub(c.height, c.borderBottomWidth))),
                        Max2(Zero, Sub(c.blh, c.borderLeftWidth)),
                        Sub(c.blv, c.borderBottomWidth),
                        BOTTOM_LEFT)
    ELSE Vector(Add(c.left, c.borderLeftWidth),
                Sub(Add(c.top, c.height), c.borderBottomWidth))

bottomLeftPaddingBox(c) ==
    IF Pos(c.blh) \/ Pos(c.blv)
    THEN getCurvePoints(Add(c.left, c.borderLeftWidth),
                        Add(c.top, Min2(c.leftHeight, Sub(c.height, c.borderBottomWidth))),
                        Max2(Zero, Sub(c.blh, c.borderLeftWidth)),
                        Max2(Zero, Sub(c.blv, c.borderBottomWidth)),
                        BOTTOM_LEFT)
    ELSE Vector(Add(c.left, c.borderLeftWidth),
                Sub(Add(c.top, c.height), c.borderBottomWidth))

topLeftContentBox(c) ==
    IF Pos(c.tlh) \/ Pos(c.tlv)
    THEN getCurvePoints(Add(Add(c.left, c.borderLeftWidth), c.paddingLeft),
                        Add(Add(c.top, c.borderTopWidth), c.paddingTop),
                        Max2(Zero, Sub(c.tlh, Add(c.borderLeftWidth, c.paddingLeft))),
                        Max2(Zero, Sub(c.tlv, Add(c.borderTopWidth, c.paddingTop))),
                        TOP_LEFT)
    ELSE Vector(Add(Add(c.left, c.borderLeftWidth), c.paddingLeft),
                Add(Add(c.top, c.borderTopWidth), c.paddingTop))

topRightContentBox(c) ==
    IF Pos(c.trh) \/ Pos(c.trv)
    THEN getCurvePoints(Add(c.left, Min2(c.topWidth,
                                         Add(Add(c.width, c.borderLeftWidth), c.paddingLeft))),
                        Add(Add(c.top, c.borderTopWidth), c.paddingTop),
                        IF Gt(c.topWidth, Add(Add(c.width, c.borderLeftWidth), c.paddingLeft))
                        THEN Zero
                        ELSE Add(Sub(c.trh, c.borderLeftWidth), c.paddingLeft),
                        Sub(c.trv, Add(c.borderTopWidth, c.paddingTop)),
                        TOP_RIGHT)
    ELSE Vector(Sub(Add(c.left, c.width), Add(c.borderRightWidth, c.paddingRight)),
                Add(Add(c.top, c.borderTopWidth), c.paddingTop))

bottomRightContentBox(c) ==
    IF Pos(c.brh) \/ Pos(c.brv)
    THEN getCurvePoints(Add(c.left, Min2(c.bottomWidth,
                                         Sub(c.width, Add(c.borderLeftWidth, c.paddingLeft)))),
                        Add(c.top, Min2(c.rightHeight,
                                        Add(Add(c.height, c.borderTopWidth), c.paddingTop))),
                        Max2(Zero, Sub(c.brh, Add(c.borderRightWidth, c.paddingRight))),
                        Sub(c.brv, Add(c.borderBottomWidth, c.paddingBottom)),
                        BOTTOM_RIGHT)
    ELSE Vector(Sub(Add(c.left, c.width), Add(c.borderRightWidth, c.paddingRight)),
                Sub(Add(c.top, c.height), Add(c.borderBottomWidth, c.paddingBottom)))

bottomLeftContentBox(c) ==
    IF Pos(c.blh) \/ Pos(c.blv)
    THEN getCurvePoints(Add(Add(c.left, c.borderLeftWidth), c.paddingLeft),
                        Add(c.top, c.leftHeight),
                        Max2(Zero, Sub(c.blh, Add(c.borderLeftWidth, c.paddingLeft))),
                        Sub(c.blv, Add(c.borderBottomWidth, c.paddingBottom)),
                        BOTTOM_LEFT)
    ELSE Vector(Add(Add(c.left, c.borderLeftWidth), c.paddingLeft),
                Sub(Add(c.top, c.height), Add(c.borderBottomWidth, c.paddingBottom)))

\* the 24 fields assigned from the locals c
Fields(c) ==
        [topLeftBorderDoubleOuterBox     |-> topLeftBorderDoubleOuterBox(c),
         topRightBorderDoubleOuterBox    |-> topRightBorderDoubleOuterBox(c),
         bottomRightBorderDoubleOuterBox |-> bottomRightBorderDoubleOuterBox(c),
         bottomLeftBorderDoubleOuterBox  |-> bottomLeftBorderDoubleOuterBox(c),
         topLeftBorderDoubleInnerBox     |-> topLeftBorderDoubleInnerBox(c),
         topRightBorderDoubleInnerBox    |-> topRightBorderDoubleInnerBox(c),
         bottomRightBorderDoubleInnerBox |-> bottomRightBorderDoubleInnerBox(c),
         bottomLeftBorderDoubleInnerBox  |-> bottomLeftBorderDoubleInnerBox(c),
         topLeftBorderStroke     |-> topLeftBorderStroke(c),
         topRightBorderStroke    |-> topRightBorderStroke(c),
         bottomRightBorderStroke |-> bottomRightBorderStroke(c),
         bottomLeftBorderStroke  |-> bottomLeftBorderStroke(c),
         topLeftBorderBox     |-> topLeftBorderBox(c),
         topRightBorderBox    |-> topRightBorderBox(c),
         bottomRightBorderBox |-> bottomRightBorderBox(c),
         bottomLeftBorderBox  |-> bottomLeftBorderBox(c),
         topLeftPaddingBox     |-> topLeftPaddingBox(c),
         topRightPaddingBox    |-> topRightPaddingBox(c),
         bottomRightPaddingBox |-> bottomRightPaddingBox(c),
         bottomLeftPaddingBox  |-> bottomLeftPaddingBox(c),
         topLeftContentBox     |-> topLeftContentBox(c),
         topRightContentBox    |-> topRightContentBox(c),
         bottomRightContentBox |-> bottomRightContentBox(c),
         bottomLeftContentBox  |-> bottomLeftContentBox(c)]

\* new BoundCurves(element)
BoundCurves(e) == Fields(Locals(e, NormalizedRadii(e)))

\* the three path helpers
calculateBorderBoxPath(cv) ==
    <<cv.topLeftBorderBox, cv.topRightBorderBox,
      cv.bottomRightBorderBox, cv.bottomLeftBorderBox>>

\* calculateContentBoxPath with the two bottom corners exchanged
calculateContentBoxPathSwapped(cv) ==
    <<cv.topLeftContentBox, cv.topRightContentBox,
      cv.bottomLeftContentBox, cv.bottomRightContentBox>>

calculateContentBoxPath(cv) ==
    <<cv.topLeftContentBox, cv.topRightContentBox,
      cv.bottomRightContentBox, cv.bottomLeftContentBox>>

calculatePaddingBoxPath(cv) ==
    <<cv.topLeftPaddingBox, cv.topRightPaddingBox,
      cv.bottomRightPaddingBox, cv.bottomLeftPaddingBox>>


---------------------------------------------------------------------------
(* The elements the model constructs BoundCurves for                       *)

\* largest box offset index, width, height, radius component, border width
\* and padding drawn
MaxOffset == 1

MaxWidth == 10

MaxHeight == 6

MaxRadius == 8

MaxBorder == 6

MaxPadding == 4

\* an element: bounds, and styles already resolved to numbers.  rad is
\* <<tlh, tlv, trh, trv, brh, brv, blh, blv>>, bw and pd are
\* <<top, right, bottom, left>>
Element(left, top, width, height, rad, bw, pd) ==
    [bounds |-> [left |-> left, top |-> top, width |-> width, height |-> height],
     styles |-> [borderTopLeftRadius     |-> <<rad[1], rad[2]>>,
                 borderTopRightRadius    |-> <<rad[3], rad[4]>>,
                 borderBottomRightRadius |-> <<rad[5], rad[6]>>,
                 borderBottomLeftRadius  |-> <<rad[7], rad[8]>>,
                 borderTopWidth    |-> bw[1], borderRightWidth |-> bw[2],
                 borderBottomWidth |-> bw[3], borderLeftWidth  |-> bw[4],
                 paddingTop    |-> pd[1], paddingRight |-> pd[2],
                 paddingBottom |-> pd[3], paddingLeft  |-> pd[4]]]

\* the box origin (left, top) of index i
Offset(i) == <<3 * i, 7 * i>>

\* boxes with a zero side, a rectangle and a square
Sizes == {<<0, 0>>, <<0, MaxHeight>>, <<MaxWidth, 0>>,
          <<MaxWidth, MaxHeight>>, <<MaxWidth, MaxWidth>>}

RadiusValues == {0, 3, MaxRadius}

BorderValues == {0, 2, MaxBorder}

\* the (horizontal, vertical) pairs one corner draws from: square, round,
\* elliptical, and rounded along one axis only
CornerPairs == {<<0, 0>>, <<3, 3>>, <<MaxRadius, MaxRadius>>,
                <<MaxRadius, 0>>, <<0, 3>>, <<3, MaxRadius>>}

\* <<tlh, tlv, trh, trv, brh, brv, blh, blv>> from the four corners' pairs
Radii(tl, tr, br, bl) ==
    <<tl[1], tl[2], tr[1], tr[2], br[1], br[2], bl[1], bl[2]>>

\* every combination of the four corners' pairs, under fixed unequal border
\* widths and paddings
RadiusInputs ==
    { Element(Offset(MaxOffset)[1], Offset(MaxOffset)[2], sz[1], sz[2],
              Radii(tl, tr, br, bl), <<1, 2, 3, 4>>, <<2, 0, 1, 3>>) :
        sz \in Sizes, tl \in CornerPairs, tr \in CornerPairs,
        br \in CornerPairs, bl \in CornerPairs }

\* radius patterns for the inset sweep: the same pair on every corner, and
\* one rounded corner at a time
RadiusPatterns ==
    { Radii(hv, hv, hv, hv) :
        hv \in {<<0, 0>>, <<3, 3>>, <<MaxRadius, MaxRadius>>, <<3, MaxRadius>>} }
    \cup
    { [i \in 1..8 |-> IF i \in {2 * k - 1, 2 * k} THEN MaxRadius ELSE 0] :
        k \in 1..4 }

\* paddings <<top, right, bottom, left>>: none, top and left, right and
\* bottom, all four
PaddingPatterns ==
    { <<0, 0, 0, 0>>, <<MaxPadding, 0, 0, MaxPadding>>,
      <<0, MaxPadding, MaxPadding, 0>>,
      <<MaxPadding, MaxPadding, MaxPadding, MaxPadding>> }

\* <<left, top, width, height>>: a box at the origin that some radii
\* overflow, and a box away from it that none does (three times the largest
\* radius a side)
InsetBoxes ==
    { <<Offset(0)[1], Offset(0)[2], MaxWidth, MaxHeight>>,
      <<Offset(MaxOffset)[1], Offset(MaxOffset)[2], 3 * MaxRadius, 3 * MaxRadius>> }

\* every combination of border widths on those boxes
InsetInputs ==
    { Element(bx[1], bx[2], bx[3], bx[4], rad, bw, pd) :
        bx \in InsetBoxes,
        rad \in RadiusPatterns,
        bw \in [1..4 -> BorderValues],
        pd \in PaddingPatterns }

\* the spec's three concrete scenarios
Scenario100 ==
    Element(0, 0, 100, 100, [i \in 1..8 |-> 20], [i \in 1..4 |-> 10], [i \in 1..4 |-> 0])

Scenario50 ==
    Element(0, 0, 50, 50, [i \in 1..8 |-> 0], [i \in 1..4 |-> 5], [i \in 1..4 |-> 0])

ScenarioOverlap ==
    Element(0, 0, 10, 100, <<8, 0, 8, 0, 0, 0, 0, 0>>, [i \in 1..4 |-> 0], [i \in 1..4 |-> 0])

Scenarios == {Scenario100, Scenario50, ScenarioOverlap}

\* a square whose side is exactly twice the radius of its four corners
TightSquare ==
    Element(Offset(MaxOffset)[1], Offset(MaxOffset)[2], 2 * MaxRadius, 2 * MaxRadius,
            [i \in 1..8 |-> MaxRadius], <<1, 2, 3, 4>>, <<2, 0, 1, 3>>)

Elements == RadiusInputs \cup InsetInputs \cup Scenarios \cup {TightSquare}

---------------------------------------------------------------------------
(* The state machine: one element, its BoundCurves once constructed, and   *)
(* the last path helper called with what it returned                       *)

\* the fields of a BoundCurves before the constructor has run
Unset == [f \in {} |-> 0]

Init ==
    /\ element \in Elements
    /\ built = FALSE
    /\ curves = Unset
    /\ call = "none"
    /\ path = <<>>

\* new BoundCurves(element)
Construct ==
    /\ ~built
    /\ built' = TRUE
    /\ curves' = BoundCurves(element)
    /\ UNCHANGED <<element, call, path>>

CallBorderBoxPath ==
    /\ built
    /\ call' = "calculateBorderBoxPath"
    /\ path' = calculateBorderBoxPath(curves)
    /\ UNCHANGED <<element, built, curves>>

CallContentBoxPath ==
    /\ built
    /\ call' = "calculateContentBoxPath"
    /\ path' = calculateContentBoxPath(curves)
    /\ UNCHANGED <<element, built, curves>>

CallPaddingBoxPath ==
    /\ built
    /\ call' = "calculatePaddingBoxPath"
    /\ path' = calculatePaddingBoxPath(curves)
    /\ UNCHANGED <<element, built, curves>>

Next ==
    \/ Construct
    \/ CallBorderBoxPath
    \/ CallContentBoxPath
    \/ CallPaddingBoxPath

Spec == Init /\ [][Next]_vars


---------------------------------------------------------------------------
(* Reading a constructed BoundCurves back                                  *)

IsCurve(p) == p.type = "BezierCurve"

IsVertex(p) == p.type = "Vector"

Corners == {TOP_LEFT, TOP_RIGHT, BOTTOM_RIGHT, BOTTOM_LEFT}

Variants == {"BorderDoubleOuterBox", "BorderDoubleInnerBox", "BorderStroke",
             "BorderBox", "PaddingBox", "ContentBox"}

CornerName(k) ==
    CASE k = TOP_LEFT -> "topLeft"
      [] k = TOP_RIGHT -> "topRight"
      [] k = BOTTOM_RIGHT -> "bottomRight"
      [] OTHER -> "bottomLeft"

\* the name of the field of corner k in variant v
FieldName(k, v) == CornerName(k) \o v

\* the first and the last point of a corner when a path walks through it
FirstPoint(p) == IF IsCurve(p) THEN p.start ELSE p

LastPoint(p) == IF IsCurve(p) THEN p.end ELSE p

\* the origin (x, y) and the radii (r1, r2) a curve of corner k was built
\* with, from its start and end points
CurveOrigin(p, k) ==
    CASE k = TOP_LEFT -> <<p.start.x, p.end.y>>
      [] k = TOP_RIGHT -> <<p.start.x, p.start.y>>
      [] k = BOTTOM_RIGHT -> <<p.end.x, p.start.y>>
      [] OTHER -> <<p.end.x, p.end.y>>

CurveRadii(p, k) ==
    CASE k = TOP_LEFT -> <<Sub(p.end.x, p.start.x), Sub(p.start.y, p.end.y)>>
      [] k = TOP_RIGHT -> <<Sub(p.end.x, p.start.x), Sub(p.end.y, p.start.y)>>
      [] k = BOTTOM_RIGHT -> <<Sub(p.start.x, p.end.x), Sub(p.end.y, p.start.y)>>
      [] OTHER -> <<Sub(p.start.x, p.end.x), Sub(p.start.y, p.end.y)>>

\* the radius pair of corner k that the border box shows: that of its curve,
\* (0, 0) for a vertex
ShownRadii(cv, k) ==
    IF IsCurve(cv[FieldName(k, "BorderBox")])
    THEN CurveRadii(cv[FieldName(k, "BorderBox")], k)
    ELSE <<Zero, Zero>>

\* the radius pair of corner k as the styles give it
GivenRadii(e, k) ==
    CASE k = TOP_LEFT -> <<R(e.styles.borderTopLeftRadius[1]), R(e.styles.borderTopLeftRadius[2])>>
      [] k = TOP_RIGHT -> <<R(e.styles.borderTopRightRadius[1]), R(e.styles.borderTopRightRadius[2])>>
      [] k = BOTTOM_RIGHT -> <<R(e.styles.borderBottomRightRadius[1]), R(e.styles.borderBottomRightRadius[2])>>
      [] OTHER -> <<R(e.styles.borderBottomLeftRadius[1]), R(e.styles.borderBottomLeftRadius[2])>>

\* the border width and the padding of the vertical side (left or right) and
\* of the horizontal side (top or bottom) that meet at corner k
SideBorder(e, k) ==
    R(IF k \in {TOP_LEFT, BOTTOM_LEFT} THEN e.styles.borderLeftWidth
      ELSE e.styles.borderRightWidth)

LevelBorder(e, k) ==
    R(IF k \in {TOP_LEFT, TOP_RIGHT} THEN e.styles.borderTopWidth
      ELSE e.styles.borderBottomWidth)

SidePadding(e, k) ==
    R(IF k \in {TOP_LEFT, BOTTOM_LEFT} THEN e.styles.paddingLeft
      ELSE e.styles.paddingRight)

LevelPadding(e, k) ==
    R(IF k \in {TOP_LEFT, TOP_RIGHT} THEN e.styles.paddingTop
      ELSE e.styles.paddingBottom)

\* the maxFactor the constructor computes for element e
MaxFactorOf(e) == MathMax(Factors(ResolvedRadii(e.styles, e.bounds), e.bounds))


---------------------------------------------------------------------------
(* C1 *)

\* a + b <= c
SumWithin(a, b, c) == Le(Add(a, b), c)

\* C1: after the normalization step no two adjacent corner radii together
\* exceed the box dimension along their axis, for every box with width >= 0
\* and height >= 0, a zero width or height included.
C1_AdjacentRadiiFit ==
    built =>
        LET nr == NormalizedRadii(element)
        IN  /\ SumWithin(nr.tlh, nr.trh, R(element.bounds.width))
            /\ SumWithin(nr.blh, nr.brh, R(element.bounds.width))
            /\ SumWithin(nr.tlv, nr.blv, R(element.bounds.height))
            /\ SumWithin(nr.trv, nr.brv, R(element.bounds.height))

\* the same statement for boxes whose width and height are both positive,
\* where no factor is NaN
C1_AdjacentRadiiFitPositiveBox ==
    (element.bounds.width > 0 /\ element.bounds.height > 0) => C1_AdjacentRadiiFit


---------------------------------------------------------------------------
(* C2 *)

\* the radius pair (r1, r2) a variant's curve of corner k is built with when
\* the corner's normalized pair is nr: nr less the given fraction of the two
\* adjacent border widths
InsetRadii(e, k, nr, num, den) ==
    << Sub(nr[1], Div(Mul(SideBorder(e, k), R(num)), R(den))),
       Sub(nr[2], Div(Mul(LevelBorder(e, k), R(num)), R(den))) >>

\* nr less the whole adjacent border widths, floored at 0
FlooredRadii(e, k, nr) ==
    << Max2(Zero, Sub(nr[1], SideBorder(e, k))),
       Max2(Zero, Sub(nr[2], LevelBorder(e, k))) >>

\* the pair given for corner k is the pair shown times m, component by
\* component
ScaledBy(e, cv, k, m) ==
    /\ Mul(ShownRadii(cv, k)[1], m) = GivenRadii(e, k)[1]
    /\ Mul(ShownRadii(cv, k)[2], m) = GivenRadii(e, k)[2]

\* the curves of corner k in the double-outer, double-inner, stroke and
\* padding boxes are built with radii derived from the pair the border box
\* shows for k
DerivedFromShown(e, cv, k) ==
    /\ IsCurve(cv[FieldName(k, "BorderDoubleOuterBox")]) =>
         CurveRadii(cv[FieldName(k, "BorderDoubleOuterBox")], k)
           = InsetRadii(e, k, ShownRadii(cv, k), 1, 3)
    /\ IsCurve(cv[FieldName(k, "BorderDoubleInnerBox")]) =>
         CurveRadii(cv[FieldName(k, "BorderDoubleInnerBox")], k)
           = InsetRadii(e, k, ShownRadii(cv, k), 2, 3)
    /\ IsCurve(cv[FieldName(k, "BorderStroke")]) =>
         CurveRadii(cv[FieldName(k, "BorderStroke")], k)
           = InsetRadii(e, k, ShownRadii(cv, k), 1, 2)
    /\ IsCurve(cv[FieldName(k, "PaddingBox")]) =>
         CurveRadii(cv[FieldName(k, "PaddingBox")], k)
           = FlooredRadii(e, k, ShownRadii(cv, k))

\* the content-box curves are placed by the normalized radii: the top-left
\* by its floored radii, the others by the origin coordinate that is the box
\* edge less the normalized radius
ContentFromShown(e, cv) ==
    /\ IsCurve(cv.topLeftContentBox) =>
         CurveRadii(cv.topLeftContentBox, TOP_LEFT)
           = << Max2(Zero, Sub(ShownRadii(cv, TOP_LEFT)[1],
                               Add(SideBorder(e, TOP_LEFT), SidePadding(e, TOP_LEFT)))),
                Max2(Zero, Sub(ShownRadii(cv, TOP_LEFT)[2],
                               Add(LevelBorder(e, TOP_LEFT), LevelPadding(e, TOP_LEFT)))) >>
    /\ IsCurve(cv.topRightContentBox) =>
         CurveOrigin(cv.topRightContentBox, TOP_RIGHT)[1]
           = Sub(Add(R(e.bounds.left), R(e.bounds.width)), ShownRadii(cv, TOP_RIGHT)[1])
    /\ IsCurve(cv.bottomRightContentBox) =>
         CurveOrigin(cv.bottomRightContentBox, BOTTOM_RIGHT)[2]
           = Sub(Add(R(e.bounds.top), R(e.bounds.height)), ShownRadii(cv, BOTTOM_RIGHT)[2])
    /\ IsCurve(cv.bottomLeftContentBox) =>
         CurveOrigin(cv.bottomLeftContentBox, BOTTOM_LEFT)[2]
           = Sub(Add(R(e.bounds.top), R(e.bounds.height)), ShownRadii(cv, BOTTOM_LEFT)[2])

\* C2: normalization is uniform and runs before any corner is computed.  With
\* m = maxFactor: if m > 1, each of the eight radius components the border
\* box shows is the given one divided by m (0 when m is Infinity); if m <= 1
\* they are the given ones; and the curves of the other variants are built
\* from the same normalized components.  Width 10 with tlh = trh = 8 gives
\* tlh = trh = 5.
C2_UniformNormalization ==
    built =>
        LET m == MaxFactorOf(element)
        IN  /\ (IsFinite(m) /\ Gt(m, R(1))) =>
                 \A k \in Corners : ScaledBy(element, curves, k, m)
            /\ m = Infinity =>
                 \A k \in Corners : ShownRadii(curves, k) = <<Zero, Zero>>
            /\ Le(m, R(1)) =>
                 \A k \in Corners : ShownRadii(curves, k) = GivenRadii(element, k)
            /\ \A k \in Corners : DerivedFromShown(element, curves, k)
            /\ ContentFromShown(element, curves)
            /\ element = ScenarioOverlap =>
                 /\ ShownRadii(curves, TOP_LEFT)[1] = R(5)
                 /\ ShownRadii(curves, TOP_RIGHT)[1] = R(5)

\* a box whose radii overflow on one axis only, with a corner rounded on the
\* other axis too, has been normalized
C2_Witness ==
    /\ built
    /\ IsFinite(MaxFactorOf(element))
    /\ Gt(MaxFactorOf(element), R(1))
    /\ Le(Factors(ResolvedRadii(element.styles, element.bounds), element.bounds)[3], R(1))
    /\ Le(Factors(ResolvedRadii(element.styles, element.bounds), element.bounds)[4], R(1))
    /\ Pos(ShownRadii(curves, BOTTOM_LEFT)[2])
    /\ IsCurve(curves.bottomLeftPaddingBox)


---------------------------------------------------------------------------
(* C3 *)

\* the pair of corner k in the record r of normalized radii
PairOf(r, k) ==
    CASE k = TOP_LEFT -> <<r.tlh, r.tlv>>
      [] k = TOP_RIGHT -> <<r.trh, r.trv>>
      [] k = BOTTOM_RIGHT -> <<r.brh, r.brv>>
      [] OTHER -> <<r.blh, r.blv>>

\* the effective radii of corner k in variant v as the inset table defines
\* them: the normalized pair nr less a third, two thirds, a half or none of
\* the adjacent border widths, and for the padding and content boxes less
\* the whole border width (and padding), floored at 0
EffectiveRadii(e, k, v, nr) ==
    CASE v = "BorderDoubleOuterBox" -> InsetRadii(e, k, nr, 1, 3)
      [] v = "BorderDoubleInnerBox" -> InsetRadii(e, k, nr, 2, 3)
      [] v = "BorderStroke" -> InsetRadii(e, k, nr, 1, 2)
      [] v = "BorderBox" -> nr
      [] v = "PaddingBox" -> FlooredRadii(e, k, nr)
      [] OTHER ->
           << Max2(Zero, Sub(nr[1], Add(SideBorder(e, k), SidePadding(e, k)))),
              Max2(Zero, Sub(nr[2], Add(LevelBorder(e, k), LevelPadding(e, k)))) >>

DecidingCorner(k, v) ==
    IF k = TOP_RIGHT /\ v \in {"BorderDoubleOuterBox", "BorderDoubleInnerBox", "BorderStroke"}
    THEN TOP_LEFT
    ELSE k

---------------------------------------------------------------------------
(* C4 *)

AllRadiiZero(e) ==
    \A k \in Corners : GivenRadii(e, k) = <<Zero, Zero>>

\* the corner k of the rectangle inset from the box by hIn on the vertical
\* side and by vIn on the horizontal side that meet at k
InsetCorner(e, k, hIn, vIn) ==
    Vector(IF k \in {TOP_LEFT, BOTTOM_LEFT}
           THEN Add(R(e.bounds.left), hIn)
           ELSE Sub(Add(R(e.bounds.left), R(e.bounds.width)), hIn),
           IF k \in {TOP_LEFT, TOP_RIGHT}
           THEN Add(R(e.bounds.top), vIn)
           ELSE Sub(Add(R(e.bounds.top), R(e.bounds.height)), vIn))

\* the corner k of variant v's inset rectangle
VariantCorner(e, k, v) ==
    CASE v = "BorderDoubleOuterBox" ->
           InsetCorner(e, k, Div(SideBorder(e, k), R(3)), Div(LevelBorder(e, k), R(3)))
      [] v = "BorderDoubleInnerBox" ->
           InsetCorner(e, k, Div(Mul(SideBorder(e, k), R(2)), R(3)),
                             Div(Mul(LevelBorder(e, k), R(2)), R(3)))
      [] v = "BorderStroke" ->
           InsetCorner(e, k, Div(SideBorder(e, k), R(2)), Div(LevelBorder(e, k), R(2)))
      [] v = "BorderBox" -> InsetCorner(e, k, Zero, Zero)
      [] v = "PaddingBox" -> InsetCorner(e, k, SideBorder(e, k), LevelBorder(e, k))
      [] OTHER ->
           InsetCorner(e, k, Add(SideBorder(e, k), SidePadding(e, k)),
                             Add(LevelBorder(e, k), LevelPadding(e, k)))

Point(x, y) == Vector(R(x), R(y))

\* C4: when all four corner radii are zero, each of the 24 fields is a
\* vertex, at the corner of its variant's inset rectangle: the box corners
\* for the border box, inset by the border widths for the padding box, by
\* border width plus padding for the content box.  Bounds {0,0,50,50} with
\* border 5 give the border path (0,0),(50,0),(50,50),(0,50) and the padding
\* path (5,5),(45,5),(45,45),(5,45).
C4_ZeroRadiiAllVertices ==
    (built /\ AllRadiiZero(element)) =>
        /\ \A k \in Corners : \A v \in Variants :
               /\ IsVertex(curves[FieldName(k, v)])
               /\ curves[FieldName(k, v)] = VariantCorner(element, k, v)
        /\ (element = Scenario50 /\ call = "calculateBorderBoxPath") =>
               path = <<Point(0, 0), Point(50, 0), Point(50, 50), Point(0, 50)>>
        /\ (element = Scenario50 /\ call = "calculatePaddingBoxPath") =>
               path = <<Point(5, 5), Point(45, 5), Point(45, 45), Point(5, 45)>>

\* a box with no rounded corner, unequal borders and some padding, whose
\* padding path has been asked for
C4_Witness ==
    /\ built
    /\ AllRadiiZero(element)
    /\ element.styles.borderLeftWidth # element.styles.borderRightWidth
    /\ element.styles.borderTopWidth # element.styles.borderBottomWidth
    /\ element.styles.paddingLeft > 0
    /\ element.bounds.left > 0
    /\ call = "calculatePaddingBoxPath"
    /\ path[3] = VariantCorner(element, BOTTOM_RIGHT, "PaddingBox")

---------------------------------------------------------------------------
(* C5 *)

\* C5: the four border-box corners in TL, TR, BR, BL order form a closed
\* clockwise path: the last point of each corner and the first point of the
\* next lie on the same box edge and do not overshoot each other along it.
C5_BorderBoxClosedClockwise ==
    built =>
        /\ LastPoint(curves.topLeftBorderBox).y = R(element.bounds.top)
        /\ FirstPoint(curves.topRightBorderBox).y = R(element.bounds.top)
        /\ Le(LastPoint(curves.topLeftBorderBox).x, FirstPoint(curves.topRightBorderBox).x)
        /\ LastPoint(curves.topRightBorderBox).x
             = Add(R(element.bounds.left), R(element.bounds.width))
        /\ FirstPoint(curves.bottomRightBorderBox).x
             = Add(R(element.bounds.left), R(element.bounds.width))
        /\ Le(LastPoint(curves.topRightBorderBox).y, FirstPoint(curves.bottomRightBorderBox).y)
        /\ LastPoint(curves.bottomRightBorderBox).y
             = Add(R(element.bounds.top), R(element.bounds.height))
        /\ FirstPoint(curves.bottomLeftBorderBox).y
             = Add(R(element.bounds.top), R(element.bounds.height))
        /\ Le(FirstPoint(curves.bottomLeftBorderBox).x, LastPoint(curves.bottomRightBorderBox).x)
        /\ LastPoint(curves.bottomLeftBorderBox).x = R(element.bounds.left)
        /\ FirstPoint(curves.topLeftBorderBox).x = R(element.bounds.left)
        /\ Le(FirstPoint(curves.topLeftBorderBox).y, LastPoint(curves.bottomLeftBorderBox).y)

\* the same statement for boxes whose width and height are both positive
C5_BorderBoxClosedClockwisePositiveBox ==
    (element.bounds.width > 0 /\ element.bounds.height > 0) => C5_BorderBoxClosedClockwise


---------------------------------------------------------------------------
(* C6 *)

\* C6: each path helper returns exactly 4 elements, the top-left, top-right,
\* bottom-right and bottom-left fields, in that order, of the border box, the
\* content box and the padding box respectively, and leaves the BoundCurves
\* unchanged.
C6_PathHelpers ==
    [][ /\ CallBorderBoxPath =>
             /\ Len(path') = 4
             /\ path'[1] = curves.topLeftBorderBox
             /\ path'[2] = curves.topRightBorderBox
             /\ path'[3] = curves.bottomRightBorderBox
             /\ path'[4] = curves.bottomLeftBorderBox
             /\ curves' = curves
        /\ CallContentBoxPath =>
             /\ Len(path') = 4
             /\ path'[1] = curves.topLeftContentBox
             /\ path'[2] = curves.topRightContentBox
             /\ path'[3] = curves.bottomRightContentBox
             /\ path'[4] = curves.bottomLeftContentBox
             /\ curves' = curves
        /\ CallPaddingBoxPath =>
             /\ Len(path') = 4
             /\ path'[1] = curves.topLeftPaddingBox
             /\ path'[2] = curves.topRightPaddingBox
             /\ path'[3] = curves.bottomRightPaddingBox
             /\ path'[4] = curves.bottomLeftPaddingBox
             /\ curves' = curves
      ]_vars

\* the content path of a box whose content, padding and border corners all
\* differ has been returned
C6_Witness ==
    /\ call = "calculateContentBoxPath"
    /\ Len(path) = 4
    /\ \A i \in 1..4 :
          /\ path[i] # calculatePaddingBoxPath(curves)[i]
          /\ path[i] # calculateBorderBoxPath(curves)[i]
    /\ \A i \in 1..4 : \A j \in 1..4 : i # j => path[i] # path[j]
    /\ IsCurve(path[1])

---------------------------------------------------------------------------
(* C7 *)

\* a square box of side s with the same radius r, horizontal and vertical, on
\* all four corners, r > 0 and s >= 2r
UniformSquare(e) ==
    /\ e.bounds.width = e.bounds.height
    /\ \A k \in Corners : GivenRadii(e, k) = GivenRadii(e, TOP_LEFT)
    /\ e.styles.borderTopLeftRadius[1] = e.styles.borderTopLeftRadius[2]
    /\ e.styles.borderTopLeftRadius[1] > 0
    /\ e.bounds.width >= 2 * e.styles.borderTopLeftRadius[1]

\* C7: on such a box every border-box corner is a curve whose start and end
\* lie on the two box edges meeting at the corner, each at distance r from the
\* true corner.  Bounds {0,0,100,100} with r = 20: top-left start (0,20), end
\* (20,0).
C7_UniformSquareCorners ==
    (built /\ UniformSquare(element)) =>
        LET l == element.bounds.left
            t == element.bounds.top
            s == element.bounds.width
            r == element.styles.borderTopLeftRadius[1]
        IN  /\ \A k \in Corners : IsCurve(curves[FieldName(k, "BorderBox")])
            /\ curves.topLeftBorderBox.start = Point(l, t + r)
            /\ curves.topLeftBorderBox.end = Point(l + r, t)
            /\ curves.topRightBorderBox.start = Point(l + s - r, t)
            /\ curves.topRightBorderBox.end = Point(l + s, t + r)
            /\ curves.bottomRightBorderBox.start = Point(l + s, t + s - r)
            /\ curves.bottomRightBorderBox.end = Point(l + s - r, t + s)
            /\ curves.bottomLeftBorderBox.start = Point(l + r, t + s)
            /\ curves.bottomLeftBorderBox.end = Point(l, t + s - r)
            /\ element = Scenario100 =>
                 /\ curves.topLeftBorderBox.start = Point(0, 20)
                 /\ curves.topLeftBorderBox.end = Point(20, 0)

\* such a box, away from the origin and with s = 2r exactly, has been
\* constructed: the end of each corner is the start of the next
C7_Witness ==
    /\ built
    /\ UniformSquare(element)
    /\ element.bounds.left > 0
    /\ element.bounds.top > 0
    /\ element.bounds.width = 2 * element.styles.borderTopLeftRadius[1]
    /\ IsCurve(curves.bottomLeftBorderBox)
    /\ curves.bottomLeftBorderBox.end = curves.topLeftBorderBox.start
    /\ curves.topLeftBorderBox.end = curves.topRightBorderBox.start

---------------------------------------------------------------------------
(* C8 *)

\* C8: every content-box corner that is a curve is built with both radius
\* components equal to max(0, normalized component - (adjacent border width +
\* adjacent padding)) of the sides meeting at that corner, so with no
\* negative radius.
C8_ContentRadiiFloored ==
    built =>
        LET nr == NormalizedRadii(element)
        IN  \A k \in Corners :
                IsCurve(curves[FieldName(k, "ContentBox")]) =>
                    /\ CurveRadii(curves[FieldName(k, "ContentBox")], k)
                         = EffectiveRadii(element, k, "ContentBox", PairOf(nr, k))
                    /\ Le(Zero, CurveRadii(curves[FieldName(k, "ContentBox")], k)[1])
                    /\ Le(Zero, CurveRadii(curves[FieldName(k, "ContentBox")], k)[2])

\* the part of C8 about the top-left corner alone
C8_TopLeftContentRadiiFloored ==
    (built /\ IsCurve(curves.topLeftContentBox)) =>
        CurveRadii(curves.topLeftContentBox, TOP_LEFT)
          = EffectiveRadii(element, TOP_LEFT, "ContentBox",
                           PairOf(NormalizedRadii(element), TOP_LEFT))

---------------------------------------------------------------------------
(* C9 *)

\* the far edges of the padding box and of the content box
PaddingRight(e) ==
    Sub(Add(R(e.bounds.left), R(e.bounds.width)), R(e.styles.borderRightWidth))

PaddingBottom(e) ==
    Sub(Add(R(e.bounds.top), R(e.bounds.height)), R(e.styles.borderBottomWidth))

ContentRight(e) ==
    Sub(Add(R(e.bounds.left), R(e.bounds.width)),
        Add(R(e.styles.borderRightWidth), R(e.styles.paddingRight)))

ContentBottom(e) ==
    Sub(Add(R(e.bounds.top), R(e.bounds.height)),
        Add(R(e.styles.borderBottomWidth), R(e.styles.paddingBottom)))

\* the origin of the field when it is a curve lies within (xMax, yMax)
OriginWithin(p, k, xMax, yMax) ==
    IsCurve(p) => /\ Le(CurveOrigin(p, k)[1], xMax)
                  /\ Le(CurveOrigin(p, k)[2], yMax)

\* C9: in the padding box and the content box the origin given to the arc
\* construction of the top-right, bottom-right and bottom-left corners never
\* lies beyond the box's far edge less the variant's inset on that edge: x of
\* the right-hand corners, y of the bottom corners.
C9_OriginsClamped ==
    built =>
        /\ IsCurve(curves.topRightPaddingBox) =>
             Le(CurveOrigin(curves.topRightPaddingBox, TOP_RIGHT)[1], PaddingRight(element))
        /\ OriginWithin(curves.bottomRightPaddingBox, BOTTOM_RIGHT,
                        PaddingRight(element), PaddingBottom(element))
        /\ IsCurve(curves.bottomLeftPaddingBox) =>
             Le(CurveOrigin(curves.bottomLeftPaddingBox, BOTTOM_LEFT)[2], PaddingBottom(element))
        /\ IsCurve(curves.topRightContentBox) =>
             Le(CurveOrigin(curves.topRightContentBox, TOP_RIGHT)[1], ContentRight(element))
        /\ OriginWithin(curves.bottomRightContentBox, BOTTOM_RIGHT,
                        ContentRight(element), ContentBottom(element))
        /\ IsCurve(curves.bottomLeftContentBox) =>
             Le(CurveOrigin(curves.bottomLeftContentBox, BOTTOM_LEFT)[2], ContentBottom(element))

\* the parts of C9 whose origin the code does clamp by the inset of the far
\* edge itself: the top-right x and the bottom y of the padding box
C9_PaddingTopRightAndBottomClamped ==
    built =>
        /\ IsCurve(curves.topRightPaddingBox) =>
             Le(CurveOrigin(curves.topRightPaddingBox, TOP_RIGHT)[1], PaddingRight(element))
        /\ IsCurve(curves.bottomRightPaddingBox) =>
             Le(CurveOrigin(curves.bottomRightPaddingBox, BOTTOM_RIGHT)[2], PaddingBottom(element))
        /\ IsCurve(curves.bottomLeftPaddingBox) =>
             Le(CurveOrigin(curves.bottomLeftPaddingBox, BOTTOM_LEFT)[2], PaddingBottom(element))

---------------------------------------------------------------------------
(* C10 *)

\* C10: every padding-box corner that is a curve is built with the radii
\* (max(0, h - adjacent vertical-side border width), max(0, v - adjacent
\* horizontal-side border width)) of its corner's normalized radius (h, v),
\* never negative, and the top-left origin is (left + borderLeftWidth, top +
\* borderTopWidth).  Radius 20 with border 10 gives radius 10 at origin
\* (10,10).
C10_PaddingRadiiFloored ==
    built =>
        LET nr == NormalizedRadii(element)
        IN  /\ \A k \in Corners :
                  IsCurve(curves[FieldName(k, "PaddingBox")]) =>
                      /\ CurveRadii(curves[FieldName(k, "PaddingBox")], k)
                           = << Max2(Zero, Sub(PairOf(nr, k)[1], SideBorder(element, k))),
                                Max2(Zero, Sub(PairOf(nr, k)[2], LevelBorder(element, k))) >>
                      /\ Le(Zero, CurveRadii(curves[FieldName(k, "PaddingBox")], k)[1])
                      /\ Le(Zero, CurveRadii(curves[FieldName(k, "PaddingBox")], k)[2])
            /\ IsCurve(curves.topLeftPaddingBox) =>
                  CurveOrigin(curves.topLeftPaddingBox, TOP_LEFT)
                    = << Add(R(element.bounds.left), R(element.styles.borderLeftWidth)),
                         Add(R(element.bounds.top), R(element.styles.borderTopWidth)) >>
            /\ element = Scenario100 =>
                  /\ CurveRadii(curves.topLeftPaddingBox, TOP_LEFT) = <<R(10), R(10)>>
                  /\ CurveOrigin(curves.topLeftPaddingBox, TOP_LEFT) = <<R(10), R(10)>>

\* a padding-box curve with one component floored at 0 and the other
\* positive, on a box whose radii were scaled down and whose left and right
\* borders differ
C10_Witness ==
    /\ built
    /\ Gt(MaxFactorOf(element), R(1))
    /\ element.styles.borderLeftWidth # element.styles.borderRightWidth
    /\ IsCurve(curves.bottomRightPaddingBox)
    /\ CurveRadii(curves.bottomRightPaddingBox, BOTTOM_RIGHT)[1] = Zero
    /\ Pos(CurveRadii(curves.bottomRightPaddingBox, BOTTOM_RIGHT)[2])
    /\ Gt(R(element.styles.borderRightWidth), NormalizedRadii(element).brh)
    /\ IsCurve(curves.topLeftPaddingBox)
    /\ Pos(CurveRadii(curves.topLeftPaddingBox, TOP_LEFT)[1])

---------------------------------------------------------------------------
(* C11 *)

\* the near edges of the padding box
PaddingLeft(e) == Add(R(e.bounds.left), R(e.styles.borderLeftWidth))

PaddingTop(e) == Add(R(e.bounds.top), R(e.styles.borderTopWidth))

\* C11: the four padding-box corners taken in TL, TR, BR, BL order form a
\* closed path along the padding rectangle: the last point of the top-right
\* corner and the first point of the bottom-right corner both have
\* x = left + width - borderRightWidth, the last point of bottom-right and
\* the first point of bottom-left both have y = top + height -
\* borderBottomWidth, the last point of bottom-left and the first point of
\* top-left both have x = left + borderLeftWidth, and the last point of
\* top-left and the first point of top-right both have y = top +
\* borderTopWidth, also when the left and right (or top and bottom) border
\* widths differ.
C11_PaddingBoxClosed ==
    built =>
        /\ LastPoint(curves.topRightPaddingBox).x = PaddingRight(element)
        /\ FirstPoint(curves.bottomRightPaddingBox).x = PaddingRight(element)
        /\ LastPoint(curves.bottomRightPaddingBox).y = PaddingBottom(element)
        /\ FirstPoint(curves.bottomLeftPaddingBox).y = PaddingBottom(element)
        /\ LastPoint(curves.bottomLeftPaddingBox).x = PaddingLeft(element)
        /\ FirstPoint(curves.topLeftPaddingBox).x = PaddingLeft(element)
        /\ LastPoint(curves.topLeftPaddingBox).y = PaddingTop(element)
        /\ FirstPoint(curves.topRightPaddingBox).y = PaddingTop(element)

\* the part of C11 the code keeps: every junction but the first point of the
\* bottom-right corner lies on its edge of the padding rectangle, and so
\* does that point when the left and right border widths are equal
C11_PaddingBoxClosedButBottomRightStart ==
    built =>
        /\ LastPoint(curves.topRightPaddingBox).x = PaddingRight(element)
        /\ element.styles.borderLeftWidth = element.styles.borderRightWidth =>
             FirstPoint(curves.bottomRightPaddingBox).x = PaddingRight(element)
        /\ LastPoint(curves.bottomRightPaddingBox).y = PaddingBottom(element)
        /\ FirstPoint(curves.bottomLeftPaddingBox).y = PaddingBottom(element)
        /\ LastPoint(curves.bottomLeftPaddingBox).x = PaddingLeft(element)
        /\ FirstPoint(curves.topLeftPaddingBox).x = PaddingLeft(element)
        /\ LastPoint(curves.topLeftPaddingBox).y = PaddingTop(element)
        /\ FirstPoint(curves.topRightPaddingBox).y = PaddingTop(element)

---------------------------------------------------------------------------
(* C12 *)

\* C12: in all six box variants, whether a corner's field is a curve or a
\* vertex depends only on that same corner's normalized radius pair (curve
\* iff its horizontal or vertical component is > 0); in particular the
\* top-right double-outer, double-inner and stroke fields are curves exactly
\* when trh > 0 or trv > 0, independently of the top-left radius, so a
\* corner is a curve in one variant exactly when it is a curve in the
\* border-box variant.
C12_CurveIffOwnCornerRadii ==
    built =>
        LET nr == NormalizedRadii(element)
        IN  \A k \in Corners : \A v \in Variants :
                /\ IsCurve(curves[FieldName(k, v)])
                     <=> (Pos(PairOf(nr, k)[1]) \/ Pos(PairOf(nr, k)[2]))
                /\ IsCurve(curves[FieldName(k, v)])
                     <=> IsCurve(curves[FieldName(k, "BorderBox")])

=============================================================================
